---- MODULE Spec2Model ----
(***************************************************************************)
(* Checkbox (packages/react/checkbox/src/Checkbox.tsx) and the context     *)
(* factory it uses, as a state machine.                                    *)
(*                                                                         *)
(* One mounted Checkbox is modelled through React's phases: an event       *)
(* handler or an owner re-render schedules a render (pc = "render"), the   *)
(* render commits and schedules the passive effects (pc = "effect"), and   *)
(* after the effects the component is at rest (pc = "idle").               *)
(*                                                                         *)
(* CheckedState values are written as strings: "true", "false",            *)
(* "indeterminate"; a prop that was not supplied is "undefined".           *)
(***************************************************************************)
EXTENDS Naturals, Sequences, FiniteSets

VARIABLES
    as,                 \* props.as: the element the control is rendered as
    checkedProp,        \* props.checked ("undefined" when not supplied)
    defaultChecked,     \* props.defaultChecked
    disabled,           \* props.disabled ("undefined" when not supplied)
    hasOnCheckedChange, \* whether props.onCheckedChange is supplied
    uncontrolledProp,   \* the state cell inside useControllableState
    hasConsumerStoppedPropagationRef, \* Checkbox.tsx:63
    previousRef,        \* the one-slot memory of usePrevious
    bubbleChecked,      \* BubbleInput's `checked` prop at the last render
    prevChecked,        \* what usePrevious returned at the last render
    effectDeps,         \* [prevChecked, checked] of the last effect run
    dataState,          \* data-state rendered on the interactive element
    dataDisabled,       \* data-disabled rendered on the interactive element
    context,            \* the value CheckboxProvider broadcasts
    input,              \* the hidden native input's checked/indeterminate flags
    host,               \* what the host gives for the prototype's `checked`
    pc,                 \* "render" | "effect" | "idle" | "crashed"
    cycle,              \* what started the current cycle, and the state before it
    log,                \* what happened in the current cycle, in order
    steps,              \* number of cycles started (activations, owner renders)
    clicks,             \* number of activations whose handler ran
    renders,            \* number of renders after the first
    changes,            \* number of renders whose checked differs from the previous
    events,             \* number of events the bridge dispatched
    forceMount,         \* CheckboxIndicator's forceMount prop
    defaultContext,     \* the defaultContext the context factory was built with
    underProvider,      \* whether the indicator is rendered under the Provider
    memoDeps,           \* the dependencies of the Provider's memoized value
    contextId,          \* the identity of the object the Provider broadcasts
    accessed,           \* what the indicator's context accessor did at the last render
    indicator,          \* what CheckboxIndicator rendered at the last render
    observed            \* the input's flags as listeners saw them at the last dispatch

vars == <<as, checkedProp, defaultChecked, disabled, hasOnCheckedChange,
          uncontrolledProp, hasConsumerStoppedPropagationRef, previousRef,
          bubbleChecked, prevChecked, effectDeps, dataState, dataDisabled,
          context, input, host, pc, cycle, log, steps, clicks, renders, changes,
          events, forceMount, defaultContext, underProvider, memoDeps, contextId,
          accessed, indicator, observed>>

\* Bound on the number of activations and owner re-renders of one run.
MaxSteps == 4

True == "true"
False == "false"
Indeterminate == "indeterminate"
Undefined == "undefined"

\* type CheckedState = boolean | 'indeterminate'
CheckedState == {False, True, Indeterminate}

CHECKBOX_NAME == "Checkbox"
INDICATOR_NAME == "CheckboxIndicator"

\* An optional object: absent (undefined) or present.
None == <<>>
Some(v) == <<v>>

\* disabled?: boolean, with no default: true, false or not supplied.
DisabledValues == {True, False, Undefined}

\* JavaScript truthiness of a `disabled` value: `disabled ? ... : ...`
truthy(v) == v = True

\* The element types the control is rendered as (`as`, default 'button').
CHECKBOX_DEFAULT_TAG == "button"
Tags == {CHECKBOX_DEFAULT_TAG, "div"}

\* Hosts: the prototype has an accessor with a setter (every DOM), a
\* descriptor without a setter, or no own `checked` property at all.
Hosts == {"accessor", "noSetter", "noDescriptor"}

----------------------------------------------------------------------------
\* Pure functions

\* getState without the indeterminate case.
getStateTruthy(c) == IF c = True \/ c = Indeterminate THEN "checked" ELSE "unchecked"

\* getState(checked)
getState(c) ==
    IF c = Indeterminate THEN "indeterminate"
    ELSE IF c = True THEN "checked" ELSE "unchecked"

\* JavaScript `!v` on a CheckedState or undefined
Not(v) == IF v = True \/ v = Indeterminate THEN False ELSE True

\* nextChecked resolving Indeterminate to false.
nextCheckedIndeterminateOff(prev) == IF prev = Indeterminate THEN False ELSE Not(prev)

\* nextChecked cycling through the three states.
nextCheckedThreeCycle(prev) ==
    IF prev = Indeterminate THEN True
    ELSE IF prev = True THEN Indeterminate ELSE True

\* nextChecked that only ever checks.
nextCheckedAlwaysOn(prev) == True

\* nextChecked that leaves Indeterminate as it is.
nextCheckedKeepsIndeterminate(prev) ==
    IF prev = Indeterminate THEN Indeterminate ELSE Not(prev)

\* The updater passed to setChecked:
\*   (prevChecked) => (prevChecked === 'indeterminate' ? true : !prevChecked)
nextChecked(prev) == IF prev = Indeterminate THEN True ELSE Not(prev)

\* controllableProps with `checked` passed as the default value.
controllablePropsAsDefault ==
    [prop |-> Undefined, defaultProp |-> checkedProp,
     onChange |-> hasOnCheckedChange]

\* The options Checkbox passes to useControllableState.
controllableProps ==
    [prop |-> checkedProp, defaultProp |-> defaultChecked,
     onChange |-> hasOnCheckedChange]

\* useControllableState: controlled iff an external value is supplied.
isControlled(p) == p.prop # Undefined

\* useControllableState: the value it returns.
controllableValue(p, unc) == IF isControlled(p) THEN p.prop ELSE unc

\* useControllableState: the state cell after setValue(next).
setValueCell(p, unc, next) == IF isControlled(p) THEN unc ELSE next

\* useControllableState: the notifications setValue(next) makes.
setValueNotify(p, next) == IF p.onChange THEN <<next>> ELSE <<>>

\* const [checked = false, setChecked] = useControllableState({...})
checked ==
    LET v == controllableValue(controllableProps, uncontrolledProp)
    IN  IF v = Undefined THEN False ELSE v

\* usePrevious(value): it returns the value of the render before and keeps
\* this render's value for the next one. At the first render there is no
\* render before and it returns the value itself.
usePrevious(ref, value) == [previous |-> ref, ref |-> value]

\* Whether the platform delivers a click on the rendered element to its
\* handler: a disabled button receives none, other elements ignore `disabled`.
clickReaches(tag, dis) == ~(truthy(dis) /\ tag = "button")

\* <CheckboxProvider state={checked} disabled={disabled}>
providerValue == [state |-> checked, disabled |-> disabled]

\* mirror writing the negated value to the checked flag.
mirrorNegated(c) ==
    [indeterminate |-> c = Indeterminate,
     checked |-> IF c = Indeterminate THEN FALSE ELSE c # True]

\* mirror writing the truthiness of `checked` to the checked flag.
mirrorTruthy(c) ==
    [indeterminate |-> c = Indeterminate,
     checked |-> c = True \/ c = Indeterminate]

\* input.indeterminate = isIndeterminate; setChecked.call(input, ...)
mirror(c) ==
    LET isIndeterminate == c = Indeterminate
    IN  [indeterminate |-> isIndeterminate,
         checked |-> IF isIndeterminate THEN FALSE ELSE c = True]

\* What becomes of the visible control's own click: the handler ends with
\* event.stopPropagation(), whatever the consumer's handler did.
buttonClick(consumerStops) == "stopped"

\* onClickCapture on the hidden input: what becomes of the dispatched event.
onClickCapture(stoppedRef) == IF stoppedRef THEN "stopped" ELSE "escaped"

\* Whether React calls a click listener given to the hidden input: the input
\* is rendered with disabled={disabled}, and no click listener of a disabled
\* input is called.
captureReaches(dis) == ~truthy(dis)

\* What becomes of the event dispatched on the hidden input: the capture
\* listener decides when it is called, and otherwise the event goes on.
relayedClick(stoppedRef, dis) ==
    IF captureReaches(dis) THEN onClickCapture(stoppedRef) ELSE "escaped"

Entry(op, val) == [op |-> op, val |-> val]

\* syncAndDispatch dispatching the event before the two writes.
dispatchBeforeSync(inp, c, stoppedRef, dis) ==
    [input |-> mirror(c),
     seen |-> inp,
     trace |-> <<Entry("dispatch", relayedClick(stoppedRef, dis)), Entry("mutate", c)>>]

\* syncAndDispatch dispatching between the two writes.
dispatchBetweenWrites(inp, c, stoppedRef, dis) ==
    [input |-> mirror(c),
     seen |-> [inp EXCEPT !.indeterminate = mirror(c).indeterminate],
     trace |-> <<Entry("mutate", c), Entry("dispatch", relayedClick(stoppedRef, dis)),
                 Entry("mutate", c)>>]

\* input.indeterminate = ...; setChecked.call(input, ...); input.dispatchEvent(event):
\* the input after the two writes, the flags a listener of the event sees,
\* and the steps in the order they are made.
syncAndDispatch(inp, c, stoppedRef, dis) ==
    LET afterIndeterminate == [inp EXCEPT !.indeterminate = mirror(c).indeterminate]
        afterChecked == [afterIndeterminate EXCEPT !.checked = mirror(c).checked]
    IN  [input |-> afterChecked,
         seen |-> afterChecked,
         trace |-> <<Entry("mutate", c), Entry("dispatch", relayedClick(stoppedRef, dis))>>]

\* Object.values(providerProps)
objectValues(p) == <<p.state, p.disabled>>

\* React's comparison of two dependency arrays.
depsEqual(a, b) ==
    \A i \in 1..(IF Len(a) < Len(b) THEN Len(a) ELSE Len(b)) : a[i] = b[i]

\* Provider without the memo: a new object at every render.
ProviderNoMemo(prevDeps, prevValue, prevId, providerProps) ==
    [value |-> providerProps, id |-> prevId + 1, deps |-> objectValues(providerProps)]

\* Provider: useMemo(() => providerProps, Object.values(providerProps)).
\* The memoized object, its identity and the dependencies it was made with.
Provider(prevDeps, prevValue, prevId, providerProps) ==
    IF depsEqual(prevDeps, objectValues(providerProps))
    THEN [value |-> prevValue, id |-> prevId, deps |-> prevDeps]
    ELSE [value |-> providerProps, id |-> prevId + 1,
          deps |-> objectValues(providerProps)]

\* React.useContext(Context): the nearest Provider's value, or the default
\* given to React.createContext(defaultContext).
reactUseContext(under, broadcast, defaultCtx) ==
    IF under THEN Some(broadcast) ELSE defaultCtx

\* The quote character the error message puts around the two names.
Backtick == "(backtick)"

\* useContext whose error names the consumer only.
useContextUnnamedRoot(ctx, defaultCtx, consumerName, rootComponentName) ==
    IF ctx = None
    THEN IF defaultCtx = None
         THEN [kind |-> "throw", value |-> None,
               message |-> <<Backtick, consumerName, Backtick,
                             " must be used within its provider">>]
         ELSE [kind |-> "return", value |-> defaultCtx, message |-> <<>>]
    ELSE [kind |-> "return", value |-> ctx, message |-> <<>>]

\* useContext(consumerName) of the factory createContext(rootComponentName,
\* defaultContext), given what React.useContext returned.
useContext(ctx, defaultCtx, consumerName, rootComponentName) ==
    IF ctx = None
    THEN IF defaultCtx = None
         THEN [kind |-> "throw", value |-> None,
               message |-> <<Backtick, consumerName, Backtick, " must be used within ",
                             Backtick, rootComponentName, Backtick>>]
         ELSE [kind |-> "return", value |-> defaultCtx, message |-> <<>>]
    ELSE [kind |-> "return", value |-> ctx, message |-> <<>>]

\* indicatorPresent without the indeterminate case.
indicatorPresentCheckedOnly(force, state) == force \/ state = True

\* present={forceMount || context.state === 'indeterminate' || context.state === true}
indicatorPresent(force, state) == force \/ state = Indeterminate \/ state = True

\* What CheckboxIndicator renders from the context value it read.
renderIndicator(ctxValue, force) ==
    [present |-> indicatorPresent(force, ctxValue.state),
     dataState |-> getState(ctxValue.state),
     dataDisabled |-> truthy(ctxValue.disabled)]

\* Nothing rendered: the accessor threw.
NoIndicator == [present |-> FALSE, dataState |-> "", dataDisabled |-> FALSE]

\* CheckboxIndicator: useCheckboxContext(INDICATOR_NAME)
indicatorAccess(under, broadcast, defaultCtx) ==
    useContext(reactUseContext(under, broadcast, defaultCtx), defaultCtx,
               INDICATOR_NAME, CHECKBOX_NAME)

\* CheckboxIndicator's render, given what the accessor did.
indicatorRender(acc, force) ==
    IF acc.kind = "throw" THEN NoIndicator ELSE renderIndicator(acc.value[1], force)

\* The defaults a context factory is built with: none (as Checkbox's is), or one.
DefaultContexts == {None, Some([state |-> False, disabled |-> Undefined])}

----------------------------------------------------------------------------
\* Initial states: the first render has committed, its effects are pending.

InitProps ==
    /\ as \in Tags
    /\ checkedProp \in CheckedState \cup {Undefined}
    /\ defaultChecked \in CheckedState \cup {Undefined}
    /\ disabled \in DisabledValues
    /\ hasOnCheckedChange \in BOOLEAN
    /\ forceMount \in BOOLEAN

\* createContext<CheckboxContextValue>(CHECKBOX_NAME): no default, and the
\* indicator is a child of the Checkbox.
InitTree ==
    /\ defaultContext = None
    /\ underProvider = TRUE

\* Any factory and any placement of the consumer.
InitAnyTree ==
    /\ defaultContext \in DefaultContexts
    /\ underProvider \in BOOLEAN

InitRest ==
    /\ uncontrolledProp = controllableProps.defaultProp
    /\ hasConsumerStoppedPropagationRef = FALSE
    /\ previousRef = checked
    /\ bubbleChecked = checked
    /\ prevChecked = checked
    /\ effectDeps = <<>>
    /\ dataState = getState(checked)
    /\ dataDisabled = truthy(disabled)
    /\ context = providerValue
    /\ input = [checked |-> FALSE, indeterminate |-> FALSE]
    /\ memoDeps = objectValues(providerValue)
    /\ contextId = 0
    /\ accessed = indicatorAccess(underProvider, context, defaultContext)
    /\ indicator = indicatorRender(accessed, forceMount)
    /\ observed = input
    /\ pc = IF accessed.kind = "throw" THEN "crashed" ELSE "effect"
    /\ cycle = [cause |-> "mount", delivered |-> FALSE, stopped |-> FALSE,
                disabled |-> truthy(disabled), before |-> checked, response |-> "ignore"]
    /\ log = <<Entry("broadcast", checked)>>
    /\ steps = 0
    /\ clicks = 0
    /\ renders = 0
    /\ changes = 0
    /\ events = 0

Init == InitProps /\ InitTree /\ InitRest /\ host = "accessor"

InitAnyHost == InitProps /\ InitTree /\ InitRest /\ host \in Hosts

InitAnyContext == InitProps /\ InitAnyTree /\ InitRest /\ host = "accessor"

----------------------------------------------------------------------------
\* Actions

props == <<as, checkedProp, defaultChecked, disabled, hasOnCheckedChange, forceMount,
           defaultContext, underProvider>>
rendered == <<previousRef, bubbleChecked, prevChecked, dataState, dataDisabled, context,
              memoDeps, contextId, accessed, indicator>>
totals == <<steps, clicks, renders, changes, events>>

\* What the owner's onCheckedChange does with the notified value: nothing, or
\* it supplies a new `checked` prop (only an owner that controls the value
\* and was notified can do so).
OwnerResponses == {"ignore"} \cup CheckedState

\* A user activation of the visible control that the platform does not
\* deliver (the control is a disabled button): no handler runs.
ClickSuppressed ==
    /\ pc = "idle"
    /\ steps < MaxSteps
    /\ ~clickReaches(as, disabled)
    /\ cycle' = [cause |-> "click", delivered |-> FALSE, stopped |-> FALSE,
                 disabled |-> truthy(disabled), before |-> checked, response |-> "ignore"]
    /\ log' = <<>>
    /\ steps' = steps + 1
    /\ UNCHANGED <<props, uncontrolledProp, hasConsumerStoppedPropagationRef,
                   rendered, effectDeps, input, observed, host, pc, clicks, renders,
                   changes, events>>

\* onClick = composeEventHandlers(props.onClick, (event) => {...}):
\* the consumer's handler runs first and may stop propagation, then
\* setChecked(updater), the ref records isPropagationStopped(), and the
\* button's own click is stopped.
OnClick(consumerStops, response) ==
    LET p == controllableProps
        prev == controllableValue(p, uncontrolledProp)
        next == nextChecked(prev)
        notified == setValueNotify(p, next)
        applies == response # "ignore"
    IN  /\ pc = "idle"
        /\ steps < MaxSteps
        /\ clickReaches(as, disabled)
        /\ applies => isControlled(p) /\ notified # <<>>
        /\ uncontrolledProp' = setValueCell(p, uncontrolledProp, next)
        /\ checkedProp' = IF applies THEN response ELSE checkedProp
        /\ hasConsumerStoppedPropagationRef' = consumerStops
        /\ cycle' = [cause |-> "click", delivered |-> TRUE, stopped |-> consumerStops,
                     disabled |-> truthy(disabled), before |-> checked, response |-> response]
        /\ log' = <<Entry("compute", next)>>
                  \o [i \in 1..Len(notified) |-> Entry("notify", notified[i])]
                  \o <<Entry("buttonClick", buttonClick(consumerStops))>>
        /\ pc' = IF uncontrolledProp' # uncontrolledProp \/ checkedProp' # checkedProp
                 THEN "render" ELSE "idle"
        /\ steps' = steps + 1
        /\ clicks' = clicks + 1
        /\ UNCHANGED <<as, defaultChecked, disabled, hasOnCheckedChange, forceMount,
                       defaultContext, underProvider, rendered, effectDeps, input,
                       observed, host, renders, changes, events>>

\* The owner renders the Checkbox again, with the same props or with a new
\* `checked` (a controlled Checkbox stays controlled) or `disabled`.
OwnerRender(newChecked, newDisabled) ==
    /\ pc = "idle"
    /\ steps < MaxSteps
    /\ IF checkedProp = Undefined THEN newChecked = Undefined ELSE newChecked # Undefined
    /\ checkedProp' = newChecked
    /\ disabled' = newDisabled
    /\ cycle' = [cause |-> "props", delivered |-> FALSE, stopped |-> FALSE,
                 disabled |-> truthy(disabled), before |-> checked, response |-> "ignore"]
    /\ log' = <<>>
    /\ pc' = "render"
    /\ steps' = steps + 1
    /\ UNCHANGED <<as, defaultChecked, hasOnCheckedChange, forceMount, defaultContext,
                   underProvider, uncontrolledProp, hasConsumerStoppedPropagationRef,
                   rendered, effectDeps, input, observed, host, clicks, renders,
                   changes, events>>

\* One render of Checkbox and BubbleInput: the provider value, the rendered
\* attributes, BubbleInput's checked prop and usePrevious(checked).
Render ==
    /\ pc = "render"
    /\ LET memo == Provider(memoDeps, context, contextId, providerValue)
       IN  /\ context' = memo.value
           /\ contextId' = memo.id
           /\ memoDeps' = memo.deps
    /\ accessed' = indicatorAccess(underProvider, context', defaultContext)
    /\ indicator' = indicatorRender(accessed', forceMount)
    /\ dataState' = getState(checked)
    /\ dataDisabled' = truthy(disabled)
    /\ bubbleChecked' = checked
    /\ prevChecked' = usePrevious(previousRef, checked).previous
    /\ previousRef' = usePrevious(previousRef, checked).ref
    /\ renders' = renders + 1
    /\ changes' = IF checked # bubbleChecked THEN changes + 1 ELSE changes
    /\ log' = Append(log, Entry("broadcast", context'.state))
    /\ pc' = IF accessed'.kind = "throw" THEN "crashed" ELSE "effect"
    /\ UNCHANGED <<props, uncontrolledProp, hasConsumerStoppedPropagationRef,
                   effectDeps, input, observed, host, cycle, steps, clicks, events>>

\* shouldSync without the comparison with the previous value.
shouldSyncEveryRun(prev, cur, h) == h = "accessor"

\* Whether the effect syncs: prevChecked !== checked && setChecked
shouldSync(prev, cur, h) == prev # cur /\ h = "accessor"

\* BubbleInput's effect, with dependencies [prevChecked, checked]. It runs
\* after the render that committed the current props, so the hidden input is
\* disabled exactly when `disabled` is truthy.
Effect ==
    /\ pc = "effect"
    /\ host # "noDescriptor"
    /\ effectDeps' = <<prevChecked, bubbleChecked>>
    /\ IF effectDeps' # effectDeps /\ shouldSync(prevChecked, bubbleChecked, host)
       THEN LET done == syncAndDispatch(input, bubbleChecked,
                                        hasConsumerStoppedPropagationRef, disabled)
            IN  /\ input' = done.input
                /\ observed' = done.seen
                /\ events' = events + 1
                /\ log' = log \o done.trace
       ELSE UNCHANGED <<input, observed, events, log>>
    /\ pc' = "idle"
    /\ UNCHANGED <<props, uncontrolledProp, hasConsumerStoppedPropagationRef,
                   rendered, host, cycle, steps, clicks, renders, changes>>

\* The effect on a host whose prototype has no `checked` descriptor:
\* `descriptor.set` reads a property of undefined and throws.
EffectThrows ==
    /\ pc = "effect"
    /\ host = "noDescriptor"
    /\ pc' = "crashed"
    /\ log' = Append(log, Entry("throw", "TypeError"))
    /\ UNCHANGED <<props, uncontrolledProp, hasConsumerStoppedPropagationRef,
                   rendered, effectDeps, input, observed, host, cycle, totals>>

Next ==
    \/ ClickSuppressed
    \/ \E consumerStops \in BOOLEAN, response \in OwnerResponses :
          OnClick(consumerStops, response)
    \/ \E newChecked \in CheckedState \cup {Undefined}, newDisabled \in DisabledValues :
          OwnerRender(newChecked, newDisabled)
    \/ Render
    \/ Effect

NextAnyHost == Next \/ EffectThrows

Spec == Init /\ [][Next]_vars

SpecAnyHost == InitAnyHost /\ [][NextAnyHost]_vars

SpecAnyContext == InitAnyContext /\ [][Next]_vars

----------------------------------------------------------------------------
\* Observations used by the properties

\* The component is at rest: rendered, and its effects have run.
Settled == pc = "idle"

\* The cycle that just settled was an activation whose handler ran.
Activated == Settled /\ cycle.cause = "click" /\ cycle.delivered

\* The values onCheckedChange was called with in the current cycle.
notifications == SelectSeq(log, LAMBDA e : e.op = "notify")

\* The events the bridge dispatched in the current cycle.
dispatches == SelectSeq(log, LAMBDA e : e.op = "dispatch")

\* The click signals that left the component in the current cycle.
escapes == SelectSeq(log, LAMBDA e : e.val = "escaped")

\* The transition rule of the toggle state machine.
TransitionRule(s) ==
    CASE s = Indeterminate -> True
      [] s = True -> False
      [] OTHER -> True

----------------------------------------------------------------------------
\* C1: whenever the mounted Checkbox is at rest, the hidden input's checked
\* flag is true iff the state is Checked and its indeterminate flag is true
\* iff the state is Indeterminate, whatever the initial value was.
C1_NativeFlagsSynchronized ==
    Settled =>
        /\ input.checked <=> (checked = True)
        /\ input.indeterminate <=> (checked = Indeterminate)

\* C2: once the effects have run, the bridge has dispatched exactly one event
\* per render whose checked value differed from the previous render's, and
\* none for the other renders; events never run ahead of the changes.
C2_OneEventPerChange ==
    /\ events <= changes
    /\ Settled => events = changes

\* C2 witness: two value changes and a same-value render in between them or
\* around them, with exactly two events dispatched.
C2_Witness ==
    /\ Settled
    /\ changes = 2
    /\ renders > changes
    /\ events = 2

\* C3: after an activation of a controlled Checkbox whose owner did not
\* update the checked prop, the state read, data-state and the broadcast
\* state are what they were before it; with checked = Indeterminate and no
\* onCheckedChange all three remain Indeterminate.
C3_ControlledActivationKeepsState ==
    /\ (Activated /\ checkedProp # Undefined /\ cycle.response = "ignore") =>
          /\ checked = cycle.before
          /\ dataState = getState(cycle.before)
          /\ context.state = cycle.before
    /\ (Activated /\ checkedProp # Undefined /\ ~hasOnCheckedChange
          /\ cycle.before = Indeterminate) =>
          /\ checked = Indeterminate
          /\ dataState = "indeterminate"
          /\ context.state = Indeterminate

\* C3 witness: a controlled Checkbox with checked = Indeterminate and no
\* onCheckedChange has been activated three times.
C3_Witness ==
    /\ Activated
    /\ checkedProp = Indeterminate
    /\ ~hasOnCheckedChange
    /\ clicks = 3
    /\ steps = 3

\* C4: after an activation of an uncontrolled Checkbox the state read is the
\* transition rule's value for the state before, and onCheckedChange, when
\* supplied, was called exactly once, with that value.
C4_UncontrolledActivationUpdates ==
    (Activated /\ checkedProp = Undefined) =>
        /\ checked = TransitionRule(cycle.before)
        /\ notifications =
              IF hasOnCheckedChange THEN <<Entry("notify", checked)>> ELSE <<>>

\* C4 witness: an uncontrolled Checkbox that started Indeterminate was
\* activated and notified its owner of Checked.
C4_Witness ==
    /\ Activated
    /\ checkedProp = Undefined
    /\ cycle.before = Indeterminate
    /\ notifications = <<Entry("notify", True)>>
    /\ checked = True

\* C5: an uncontrolled Checkbox that starts Unchecked is Unchecked after an
\* even number of activations and Checked after an odd number, so it is
\* never Indeterminate.
C5_ActivationsAlternate ==
    (checkedProp = Undefined /\ defaultChecked \in {False, Undefined}) =>
        checked = IF clicks % 2 = 0 THEN False ELSE True

\* C5 witness: the third activation of such a Checkbox has settled.
C5_Witness ==
    /\ Activated
    /\ checkedProp = Undefined
    /\ defaultChecked = False
    /\ clicks = 3
    /\ checked = True

\* C6 as stated: with checked = Indeterminate supplied by the owner (and an
\* onCheckedChange), one activation leaves the state Checked and has called
\* onCheckedChange exactly once, with Checked.
C6_ActivationMakesChecked ==
    (Activated /\ checkedProp # Undefined /\ hasOnCheckedChange
        /\ cycle.before = Indeterminate) =>
        /\ checked = True
        /\ notifications = <<Entry("notify", True)>>

\* C6 amended: with checked = Indeterminate supplied by the owner, one
\* activation calls onCheckedChange, when supplied, exactly once with
\* Checked; the state is Checked if the owner applied the notified value and
\* is still Indeterminate if the owner did not update the prop.
C6_ActivationNotifiesChecked ==
    (Activated /\ checkedProp # Undefined /\ cycle.before = Indeterminate) =>
        /\ notifications =
              IF hasOnCheckedChange THEN <<Entry("notify", True)>> ELSE <<>>
        /\ cycle.response = True => checked = True
        /\ cycle.response = "ignore" => checked = Indeterminate

\* C6 witness: the owner applied the Checked it was notified of.
C6_Witness ==
    /\ Activated
    /\ checkedProp = True
    /\ cycle.before = Indeterminate
    /\ cycle.response = True
    /\ notifications = <<Entry("notify", True)>>

\* C7: every activation on which no consumer handler stopped
\* propagation lets exactly one click signal leave the component, the one
\* dispatched from the hidden input.
C7_OneClickEscapes ==
    (Activated /\ ~cycle.stopped) =>
        escapes = <<Entry("dispatch", "escaped")>>

\* C8: when the consumer's handler stopped propagation on the visible
\* control's click, the event dispatched on the hidden input for that
\* activation is stopped too, and no click signal leaves the component.
C8_StoppedStaysStopped ==
    (Activated /\ cycle.stopped) =>
        /\ escapes = <<>>
        /\ \A i \in 1..Len(dispatches) : dispatches[i].val = "stopped"

\* C9: an activation while the control is disabled changes no state, calls
\* no onCheckedChange and dispatches no native event, whatever element the
\* control is rendered as.
C9_DisabledSuppressesActivation ==
    (Settled /\ cycle.cause = "click" /\ cycle.disabled) =>
        /\ checked = cycle.before
        /\ notifications = <<>>
        /\ dispatches = <<>>

\* C10: on a host where the checked setter cannot be found on the input
\* prototype, the effect raises no error, mutates nothing and dispatches
\* nothing, while the rendered attributes keep following the state.
C10_MissingSetterIsSilent ==
    host # "accessor" =>
        /\ pc # "crashed"
        /\ input = [checked |-> FALSE, indeterminate |-> FALSE]
        /\ events = 0
        /\ Settled => dataState = getState(checked) /\ context.state = checked

\* What is on screen belongs to the current props and state: no render is pending.
Rendered == pc \in {"effect", "idle"}

\* The rendered-attribute mapping of the toggle state machine.
StateLabel(s) ==
    CASE s = Indeterminate -> "indeterminate"
      [] s = True -> "checked"
      [] s = False -> "unchecked"

\* The steps of one activation the ordering guarantee names, in its order.
StepRank(op) ==
    CASE op = "compute" -> 1
      [] op = "notify" -> 2
      [] op = "broadcast" -> 3
      [] op = "mutate" -> 4
      [] op = "dispatch" -> 5

\* The steps of the current cycle that the ordering guarantee names.
orderedSteps == SelectSeq(log, LAMBDA e : e.op \in
                    {"compute", "notify", "broadcast", "mutate", "dispatch"})

----------------------------------------------------------------------------
\* C11: the accessor returns the broadcast value under a Provider; with no
\* Provider it returns the factory's default when there is one, and
\* otherwise raises an error whose message names the consumer and the root
\* component, and nothing is rendered.
C11_AccessorPolicy ==
    /\ underProvider =>
          accessed = [kind |-> "return", value |-> Some(context), message |-> <<>>]
    /\ (~underProvider /\ defaultContext # None) =>
          accessed = [kind |-> "return", value |-> defaultContext, message |-> <<>>]
    /\ (~underProvider /\ defaultContext = None) =>
          /\ accessed.kind = "throw"
          /\ \E i \in 1..Len(accessed.message) : accessed.message[i] = INDICATOR_NAME
          /\ \E i \in 1..Len(accessed.message) : accessed.message[i] = CHECKBOX_NAME
          /\ pc = "crashed"

\* C11 witness: the indicator was rendered outside any Provider of a factory
\* built without a default, and the accessor raised.
C11_Witness ==
    /\ ~underProvider
    /\ defaultContext = None
    /\ accessed.kind = "throw"
    /\ accessed.message[2] = INDICATOR_NAME

\* C12: whenever no render is pending, the indicator is present iff
\* forceMount is set or the state is Checked or Indeterminate.
C12_IndicatorPresence ==
    Rendered =>
        (indicator.present <=>
            (forceMount \/ checked = True \/ checked = Indeterminate))

\* C12 witness: without forceMount, the state went from Checked to Unchecked
\* and the indicator is gone.
C12_Witness ==
    /\ Settled
    /\ ~forceMount
    /\ cycle.before = True
    /\ checked = False
    /\ ~indicator.present

\* C13: constructed with defaultChecked = false and only activated, the
\* Checkbox after the first activation is Checked, shows "checked", its
\* native checked flag is true and one event was dispatched; after the
\* second it is Unchecked, the flag is false and two events were dispatched.
C13_EndToEnd ==
    (Settled /\ checkedProp = Undefined /\ defaultChecked = False /\ steps = clicks) =>
        /\ clicks = 1 =>
              /\ checked = True
              /\ dataState = "checked"
              /\ input.checked
              /\ events = 1
        /\ clicks = 2 =>
              /\ checked = False
              /\ ~input.checked
              /\ events = 2

\* C13 witness: the second activation has settled.
C13_Witness ==
    /\ Settled
    /\ checkedProp = Undefined
    /\ defaultChecked = False
    /\ steps = 2
    /\ clicks = 2
    /\ events = 2
    /\ ~input.checked

\* C14: the flags a listener of the bridge's event saw are those of the new
\* CheckedState: checked iff Checked, indeterminate iff Indeterminate.
C14_ListenersSeeNewFlags ==
    (Settled /\ dispatches # <<>>) =>
        /\ observed.checked <=> (checked = True)
        /\ observed.indeterminate <=> (checked = Indeterminate)

\* C14 witness: a listener saw the flags of a change from Checked to
\* Indeterminate.
C14_Witness ==
    /\ Settled
    /\ dispatches # <<>>
    /\ cycle.before = True
    /\ checked = Indeterminate
    /\ observed = [checked |-> FALSE, indeterminate |-> TRUE]

\* C15: the next state an activation computes is the transition rule's value
\* for the state before, which is Checked or Unchecked; and a step in which
\* the state becomes Indeterminate is a step that assigns Indeterminate to
\* the checked prop.
C15_ActivationNeverIndeterminate ==
    /\ [](\A i \in 1..Len(log) :
             log[i].op = "compute" =>
                 /\ log[i].val \in {True, False}
                 /\ log[i].val = TransitionRule(cycle.before))
    /\ [][(checked' = Indeterminate /\ checked # Indeterminate) =>
             (checkedProp' = Indeterminate /\ checkedProp # Indeterminate)]_vars

\* C15 witness: after an activation from Indeterminate computed Checked, the
\* owner assigned Indeterminate again.
C15_Witness ==
    /\ Settled
    /\ clicks >= 1
    /\ cycle.cause = "props"
    /\ cycle.before = True
    /\ checked = Indeterminate

\* C16: whenever no render is pending, data-state on the interactive element
\* and on the indicator are the same and equal the state's label, and
\* data-disabled is on both iff the control is disabled.
C16_RenderedAttributes ==
    Rendered =>
        /\ dataState = StateLabel(checked)
        /\ indicator.dataState = dataState
        /\ dataDisabled <=> (disabled = True)
        /\ indicator.dataDisabled <=> (disabled = True)

\* C16 witness: the owner disabled the control and made it Indeterminate.
C16_Witness ==
    /\ Settled
    /\ cycle.cause = "props"
    /\ ~cycle.disabled
    /\ disabled = True
    /\ checked = Indeterminate
    /\ indicator.dataState = "indeterminate"
    /\ indicator.dataDisabled

\* C17: the steps of one activation occur in the order computation,
\* notification, broadcast, mirror mutation, event dispatch, each at most once.
C17_ActivationOrder ==
    cycle.cause = "click" =>
        \A i, j \in 1..Len(orderedSteps) :
            i < j => StepRank(orderedSteps[i].op) < StepRank(orderedSteps[j].op)

\* C17 witness: an activation that went through all five steps.
C17_Witness ==
    /\ Activated
    /\ Len(orderedSteps) = 5
    /\ orderedSteps[1].op = "compute"
    /\ orderedSteps[5].op = "dispatch"

\* C18: after every render the broadcast value holds the Provider's current
\* fields; a render with unchanged fields keeps the object, a render with a
\* changed field broadcasts a new object.
C18_ProviderMemo ==
    /\ [](Rendered => context = providerValue /\ accessed.value = Some(providerValue))
    /\ [][pc = "render" =>
             IF providerValue = context
             THEN contextId' = contextId /\ context' = context
             ELSE contextId' # contextId /\ context' = providerValue]_vars

\* C18 witness: of the renders so far some kept the object and some replaced it.
C18_Witness ==
    /\ Settled
    /\ contextId >= 1
    /\ renders > contextId

\* C19: an event the bridge dispatches for a transition that the owner's
\* change of the checked prop caused is not stopped by the capture listener.
C19_ExternalChangeEventEscapes ==
    (Settled /\ cycle.cause = "props") =>
        \A i \in 1..Len(dispatches) : dispatches[i].val = "escaped"

\* C20: the hidden input's checked and indeterminate flags are never both true.
C20_FlagsExclusive == ~(input.checked /\ input.indeterminate)

\* C20 witness: the bridge relayed a change from Checked to Indeterminate:
\* it set the indeterminate flag and cleared the checked flag.
C20_Witness ==
    /\ Settled
    /\ cycle.before = True
    /\ input.indeterminate
    /\ ~input.checked

====
